---- MODULE Spec2Model ----
(***************************************************************************)
(* M1FP common-domain cryptosystem (p4u/m1fp-go): key generation,          *)
(* encryption, homomorphic addition and decryption in Z/DZ, D = 2^P * 5^n. *)
(*                                                                         *)
(* The arithmetic is the program's, on scaled-down widths: the source      *)
(* works with 128-bit scalars, P >= 128 and n = 9; here the widths are the *)
(* bounds below, so that every product stays inside TLC's integers.        *)
(***************************************************************************)
EXTENDS Integers, Sequences, FiniteSets, TLC

\* ------------------------------------------------------------------------
\*  Widths (scaled) and program constants
\* ------------------------------------------------------------------------

\* digits per byte of the text codec ("%03d")
ByteDigits == 3

\* bytes' worth of decimal digits in a vote: 3 in the source (VoteDigits = 9)
VoteWidth == 1

VoteDigits == ByteDigits * VoteWidth

\* smallest precision KeyGen accepts: 128 in the source, scaled
MinPrec == 10

\* largest precision drawn as an input of KeyGen
MaxPrec == 11

\* bit width of the secret scalar a and of the randomizer r: 128 in the source
ScalarBits == 2

\* number of ciphertexts folded into one running tally
MaxAdds == 2

\* number of operands of one aggregation
MaxBox == 3

\* largest ballot value EncryptVote accepts
MaxVote == 64

\* a nil *big.Int (every big.Int of the program is >= 0)
NilInt == 0 - 1

NoErr == "none"

\* ------------------------------------------------------------------------
\*  Decimal strings (fmt.Sprintf("%0*d"), big.Int.SetString) as digit lists
\* ------------------------------------------------------------------------

RECURSIVE DigitsOf(_)
DigitsOf(v) == IF v < 10 THEN <<v>> ELSE Append(DigitsOf(v \div 10), v % 10)

RECURSIVE Zeros(_)
Zeros(k) == IF k <= 0 THEN <<>> ELSE <<0>> \o Zeros(k - 1)

\* fmt.Sprintf("%0*d", width, v): at least width digits, more when v needs them
FormatPadded(width, v) == Zeros(width - Len(DigitsOf(v))) \o DigitsOf(v)

\* fmt.Sprintf("%0*s", width, s): left-pad a digit string with zeros
PadString(width, s) == Zeros(width - Len(s)) \o s

RECURSIVE DigitsToInt(_)
DigitsToInt(s) ==
    IF s = <<>> THEN 0
    ELSE 10 * DigitsToInt(SubSeq(s, 1, Len(s) - 1)) + s[Len(s)]

\* ------------------------------------------------------------------------
\*  big.Float with a prec-bit mantissa: value = sgn * m / 2^e
\* ------------------------------------------------------------------------

RECURSIVE BitLen(_)
BitLen(v) == IF v = 0 THEN 0 ELSE 1 + BitLen(v \div 2)

\* rounding of num / 2^e to a prec-bit mantissa, to nearest even
RoundMant(num, e, prec) ==
    LET bits == BitLen(num) IN
    IF bits <= prec THEN [sgn |-> IF num = 0 THEN 0 ELSE 1, m |-> num, e |-> e]
    ELSE LET sh   == bits - prec
             q    == num \div (2 ^ sh)
             rm   == num % (2 ^ sh)
             half == 2 ^ (sh - 1)
             up   == rm > half \/ (rm = half /\ q % 2 = 1)
         IN  [sgn |-> 1, m |-> IF up THEN q + 1 ELSE q, e |-> e - sh]

\* the exponent e at which num * 2^e / den has a prec-bit integer part
RECURSIVE ParseExp(_, _, _, _)
ParseExp(num, den, prec, e) ==
    IF (num * (2 ^ e)) \div den >= 2 ^ (prec - 1) THEN e
    ELSE ParseExp(num, den, prec, e + 1)

\* new(big.Float).SetPrec(prec).SetString(xString) for the decimal text
\* xString = [ok, neg, num, den], value (-)num/den with num/den < 2
SetString(xString, prec) ==
    IF xString.num = 0 THEN [sgn |-> 0, m |-> 0, e |-> 0]
    ELSE LET e  == ParseExp(xString.num, xString.den, prec, prec - 1)
             sc == xString.num * (2 ^ e)
             q  == sc \div xString.den
             rm == sc % xString.den
             up == 2 * rm > xString.den \/ (2 * rm = xString.den /\ q % 2 = 1)
         IN  [sgn |-> IF xString.neg THEN 0 - 1 ELSE 1,
              m   |-> IF up THEN q + 1 ELSE q,
              e   |-> e]

\* x.Cmp(1) >= 0 for x >= 0
CmpOneGE(x) == x.m >= 2 ^ x.e

\* Mod1: f - floor(f)
Mod1(f, prec) ==
    IF f.e <= 0 THEN [sgn |-> 0, m |-> 0, e |-> 0]
    ELSE RoundMant(f.m % (2 ^ f.e), f.e, prec)

\* (a * x) mod 1 at precision prec: the product is rounded to prec bits
mulIntFloatMod1(a, x, prec) ==
    Mod1(RoundMant(RoundMant(a, 0, prec).m * x.m,
                   x.e + RoundMant(a, 0, prec).e, prec), prec)

\* ------------------------------------------------------------------------
\*  Domain constants and key material
\* ------------------------------------------------------------------------

computeCommonDenominator(prec, n) == (2 ^ prec) * (5 ^ n)

\* floor(f * D) for f = m / 2^e in [0, 1); the power of two shared by D and
\* 2^e is cancelled before multiplying
liftToCommonDomain(f, d, prec) ==
    LET g == IF f.e < prec THEN f.e ELSE prec
    IN  (f.m * (d \div (2 ^ g))) \div (2 ^ (f.e - g))

NilPk == [XInt |-> NilInt, HInt |-> NilInt, D |-> NilInt, Prec |-> 0, N |-> 0]
NilSk == [A |-> NilInt, PK |-> NilPk]

KeyGenErr(e) == [err |-> e, sk |-> NilSk, pk |-> NilPk]

\* the source's rand.Int: a value in [0, 2^ScalarBits), or a failure; the
\* outputs drawn are the smallest ones and the largest
RngFail == 0 - 1
RngOutputs == {0, 1, 2, 2 ^ ScalarBits - 1}

\* KeyGen refusing the smallest precision as well
KeyGenAboveMin(precBits, xString, rnd) ==
    IF precBits <= MinPrec THEN KeyGenErr("precision too small")
    ELSE IF ~xString.ok THEN KeyGenErr("invalid x string")
    ELSE LET x == SetString(xString, precBits) IN
         IF x.sgn <= 0 \/ CmpOneGE(x) THEN KeyGenErr("x must satisfy 0 < x < 1")
         ELSE IF rnd = RngFail THEN KeyGenErr("rng failure")
         ELSE LET a    == IF rnd = 0 THEN 1 ELSE rnd
                  h    == mulIntFloatMod1(a, x, precBits)
                  n    == VoteDigits
                  d    == computeCommonDenominator(precBits, n)
                  xInt == liftToCommonDomain(x, d, precBits)
                  hInt == liftToCommonDomain(h, d, precBits)
                  key  == [XInt |-> xInt, HInt |-> hInt, D |-> d,
                           Prec |-> precBits, N |-> n]
              IN  [err |-> NoErr, sk |-> [A |-> a, PK |-> key], pk |-> key]

KeyGen(precBits, xString, rnd) ==
    IF precBits < MinPrec THEN KeyGenErr("precision too small")
    ELSE IF ~xString.ok THEN KeyGenErr("invalid x string")
    ELSE LET x == SetString(xString, precBits) IN
         IF x.sgn <= 0 \/ CmpOneGE(x) THEN KeyGenErr("x must satisfy 0 < x < 1")
         ELSE IF rnd = RngFail THEN KeyGenErr("rng failure")
         ELSE LET a    == IF rnd = 0 THEN 1 ELSE rnd
                  h    == mulIntFloatMod1(a, x, precBits)
                  n    == VoteDigits
                  d    == computeCommonDenominator(precBits, n)
                  xInt == liftToCommonDomain(x, d, precBits)
                  hInt == liftToCommonDomain(h, d, precBits)
                  key  == [XInt |-> xInt, HInt |-> hInt, D |-> d,
                           Prec |-> precBits, N |-> n]
              IN  [err |-> NoErr, sk |-> [A |-> a, PK |-> key], pk |-> key]

\* ------------------------------------------------------------------------
\*  Public key blob: Prec (2 bytes), floor(X * 2^Prec), floor(H * 2^Prec)
\* ------------------------------------------------------------------------

\* a nil *big.Float
NilFloat == [sgn |-> 0, m |-> NilInt, e |-> 0]

\* the zero value of the key MarshalBinary reads
NilFloatPk == [Prec |-> 0, X |-> NilFloat, H |-> NilFloat]

\* the key with the x and h that KeyGen computes for the secret a
FloatKey(precBits, xString, a) ==
    [Prec |-> precBits,
     X    |-> SetString(xString, precBits),
     H    |-> mulIntFloatMod1(a, SetString(xString, precBits), precBits)]

\* floor(f * 2^prec), or the error for f outside [0, 1)
intFromFloat(f, prec) ==
    IF f.sgn < 0 \/ CmpOneGE(f) THEN [err |-> "value not in [0,1)", i |-> NilInt]
    ELSE [err |-> NoErr,
          i   |-> IF f.e >= prec THEN f.m \div (2 ^ (f.e - prec))
                  ELSE f.m * (2 ^ (prec - f.e))]

\* i / 2^prec as a float of prec bits; a precision of 0 takes the width of i
floatFromInt(i, prec) ==
    IF prec = 0 THEN [sgn |-> IF i = 0 THEN 0 ELSE 1, m |-> i, e |-> 0]
    ELSE LET f == RoundMant(i, 0, prec)
         IN  [sgn |-> f.sgn, m |-> f.m, e |-> f.e + prec]

\* big.Int.FillBytes: v as k big-endian bytes
FillBytes(v, k) == [j \in 1 .. k |-> (v \div (256 ^ (k - j))) % 256]

\* big.Int.SetBytes, binary.BigEndian.Uint16: the value of big-endian bytes
RECURSIVE SetBytes(_)
SetBytes(b) ==
    IF b = <<>> THEN 0
    ELSE 256 * SetBytes(SubSeq(b, 1, Len(b) - 1)) + b[Len(b)]

BlobErr(e) == [err |-> e, data |-> <<>>]

MarshalBinary(key) ==
    IF key.X = NilFloat \/ key.H = NilFloat THEN BlobErr("nil receiver or fields")
    ELSE IF key.Prec = 0 \/ key.Prec > 65535 THEN BlobErr("unsupported precision")
    ELSE LET k    == (key.Prec + 7) \div 8
             xInt == intFromFloat(key.X, key.Prec)
             hInt == intFromFloat(key.H, key.Prec)
         IN  IF xInt.err # NoErr THEN BlobErr(xInt.err)
             ELSE IF hInt.err # NoErr THEN BlobErr(hInt.err)
             ELSE [err  |-> NoErr,
                   data |-> FillBytes(key.Prec, 2) \o FillBytes(xInt.i, k)
                                \o FillBytes(hInt.i, k)]

\* the error returned, and the receiver as the call leaves it
UnmarshalBinary(key, data) ==
    IF Len(data) < 2 THEN [err |-> "truncated input", key |-> key]
    ELSE LET prec == SetBytes(SubSeq(data, 1, 2))
             k    == (prec + 7) \div 8
         IN  IF Len(data) # 2 + 2 * k
             THEN [err |-> "invalid length for given precision", key |-> key]
             ELSE [err |-> NoErr,
                   key |-> [Prec |-> prec,
                            X |-> floatFromInt(SetBytes(SubSeq(data, 3, 2 + k)), prec),
                            H |-> floatFromInt(SetBytes(SubSeq(data, 3 + k, Len(data))), prec)]]

\* ------------------------------------------------------------------------
\*  Ciphertexts
\* ------------------------------------------------------------------------

\* a nil *Ciphertext
NilCt == [c1 |-> NilInt, c2 |-> NilInt, d |-> NilInt, n |-> 0 - 1]

Uint16(v) == v % 65536

\* ------------------------------------------------------------------------
\*  Message codec
\* ------------------------------------------------------------------------

\* the "%03d" of every byte, one after the other: digit i of the result is
\* a digit of byte (i - 1) div 3
asciiToDigits(s) ==
    [i \in 1 .. ByteDigits * Len(s) |->
        (s[(i - 1) \div ByteDigits + 1]
            \div (10 ^ (ByteDigits - 1 - ((i - 1) % ByteDigits)))) % 10]

RECURSIVE DecodeChunks(_)
DecodeChunks(d) ==
    IF d = <<>> THEN <<>>
    ELSE <<DigitsToInt(SubSeq(d, 1, 3)) % 256>> \o DecodeChunks(SubSeq(d, 4, Len(d)))

\* digitsToASCII dropping the bytes of value 0
digitsToASCIINoNul(d) ==
    IF Len(d) % 3 # 0
    THEN [err |-> "digits length must be multiple of 3", plain |-> <<>>]
    ELSE [err |-> NoErr, plain |-> SelectSeq(DecodeChunks(d), LAMBDA c : c # 0)]

digitsToASCII(d) ==
    IF Len(d) % 3 # 0
    THEN [err |-> "digits length must be multiple of 3", plain |-> <<>>]
    ELSE [err |-> NoErr, plain |-> DecodeChunks(d)]

\* ------------------------------------------------------------------------
\*  Encryption
\* ------------------------------------------------------------------------

EncErr(e) == [err |-> e, ct |-> NilCt, r |-> NilInt]

\* the body shared by EncryptDeterministic and encryptDigits once n and the
\* message integer are known
EncryptCore(pk, messageInt, n, r) ==
    LET scaleFactor == 2 ^ (pk.Prec - n)
        M   == messageInt * scaleFactor
        c1  == (r * pk.XInt) % pk.D
        rH  == (r * pk.HInt) % pk.D
        c2  == (M + rH) % pk.D
    IN  [c1 |-> c1, c2 |-> c2, d |-> pk.D, n |-> n]

\* encryptDigits drawing a randomizer from the RNG also when r is supplied
encryptDigitsFreshR(pk, msgDigits, r, rnd) ==
    IF rnd = RngFail THEN EncErr("rng failure")
    ELSE LET rr == IF rnd = 0 THEN 1 ELSE rnd
             n0 == Len(msgDigits)
         IN  IF n0 > VoteDigits THEN EncErr("message too long")
             ELSE LET digits == IF n0 # VoteDigits
                                THEN PadString(VoteDigits, msgDigits)
                                ELSE msgDigits
                      n == VoteDigits
                  IN  IF pk.Prec < n THEN EncErr("precision too small")
                      ELSE [err |-> NoErr,
                            ct  |-> EncryptCore(pk, DigitsToInt(digits), n, rr),
                            r   |-> rr]

\* r = NilInt asks for a fresh randomizer, rnd is what the RNG then returns
encryptDigits(pk, msgDigits, r, rnd) ==
    IF r = NilInt /\ rnd = RngFail THEN EncErr("rng failure")
    ELSE LET rr == IF r # NilInt THEN r ELSE IF rnd = 0 THEN 1 ELSE rnd
             n0 == Len(msgDigits)
         IN  IF n0 > VoteDigits THEN EncErr("message too long")
             ELSE LET digits == IF n0 # VoteDigits
                                THEN PadString(VoteDigits, msgDigits)
                                ELSE msgDigits
                      n == VoteDigits
                  IN  IF pk.Prec < n THEN EncErr("precision too small")
                      ELSE [err |-> NoErr,
                            ct  |-> EncryptCore(pk, DigitsToInt(digits), n, rr),
                            r   |-> rr]

\* EncryptVote with the range test off by one
EncryptVoteBelowMax(pk, vote, r, rnd) ==
    IF vote >= MaxVote THEN EncErr("vote out of range")
    ELSE encryptDigits(pk, FormatPadded(VoteDigits, vote), r, rnd)

EncryptVote(pk, vote, r, rnd) ==
    IF vote > MaxVote THEN EncErr("vote out of range")
    ELSE encryptDigits(pk, FormatPadded(VoteDigits, vote), r, rnd)

\* m is a non-empty byte string
EncryptDeterministic(pk, m, r) ==
    LET n == Len(asciiToDigits(m)) IN
    IF pk.Prec < Uint16(n) THEN EncErr("precision too small")
    ELSE IF n > pk.Prec THEN EncErr("shift count wraps")
    ELSE [err |-> NoErr,
          ct  |-> EncryptCore(pk, DigitsToInt(asciiToDigits(m)), n, r),
          r   |-> r]

\* Encrypt: a randomizer from the RNG, then EncryptDeterministic; r is
\* returned also when EncryptDeterministic fails
Encrypt(pk, m, rnd) ==
    IF rnd = RngFail THEN EncErr("rng failure")
    ELSE LET r == IF rnd = 0 THEN 1 ELSE rnd
             c == EncryptDeterministic(pk, m, r)
         IN  [err |-> c.err, ct |-> c.ct, r |-> r]

\* ------------------------------------------------------------------------
\*  Homomorphic addition
\* ------------------------------------------------------------------------

AddErr(e) == [err |-> e, ct |-> NilCt]

Max(a, b) == IF a >= b THEN a ELSE b

\* Add with the receiver's c2 taken twice (other.c2 never read)
AddReceiverTwice(c, other, prec) ==
    IF c = NilCt \/ other = NilCt \/ c.c1 = NilInt \/ other.c1 = NilInt
    THEN AddErr("nil ciphertext")
    ELSE IF c.d = NilInt \/ other.d = NilInt
    THEN AddErr("missing common denominator")
    ELSE IF c.d # other.d
    THEN AddErr("mismatched common denominators")
    ELSE [err |-> NoErr,
          ct  |-> [c1 |-> (c.c1 + other.c1) % c.d,
                   c2 |-> (c.c2 + c.c2) % c.d,
                   d  |-> c.d,
                   n  |-> Max(other.n, c.n)]]

\* Add without the comparison of the two denominators
AddNoDomainCheck(c, other, prec) ==
    IF c = NilCt \/ other = NilCt \/ c.c1 = NilInt \/ other.c1 = NilInt
    THEN AddErr("nil ciphertext")
    ELSE IF c.d = NilInt \/ other.d = NilInt
    THEN AddErr("missing common denominator")
    ELSE [err |-> NoErr,
          ct  |-> [c1 |-> (c.c1 + other.c1) % c.d,
                   c2 |-> (c.c2 + other.c2) % c.d,
                   d  |-> c.d,
                   n  |-> Max(other.n, c.n)]]

\* Add whose result keeps the digit count of the receiver
AddReceiverDigits(c, other, prec) ==
    IF c = NilCt \/ other = NilCt \/ c.c1 = NilInt \/ other.c1 = NilInt
    THEN AddErr("nil ciphertext")
    ELSE IF c.d = NilInt \/ other.d = NilInt
    THEN AddErr("missing common denominator")
    ELSE IF c.d # other.d
    THEN AddErr("mismatched common denominators")
    ELSE [err |-> NoErr,
          ct  |-> [c1 |-> (c.c1 + other.c1) % c.d,
                   c2 |-> (c.c2 + other.c2) % c.d,
                   d  |-> c.d,
                   n  |-> c.n]]

\* Add without the reduction of the sums
AddUnreduced(c, other, prec) ==
    IF c = NilCt \/ other = NilCt \/ c.c1 = NilInt \/ other.c1 = NilInt
    THEN AddErr("nil ciphertext")
    ELSE IF c.d = NilInt \/ other.d = NilInt
    THEN AddErr("missing common denominator")
    ELSE IF c.d # other.d
    THEN AddErr("mismatched common denominators")
    ELSE [err |-> NoErr,
          ct  |-> [c1 |-> c.c1 + other.c1,
                   c2 |-> c.c2 + other.c2,
                   d  |-> c.d,
                   n  |-> Max(other.n, c.n)]]

Add(c, other, prec) ==
    IF c = NilCt \/ other = NilCt \/ c.c1 = NilInt \/ other.c1 = NilInt
    THEN AddErr("nil ciphertext")
    ELSE IF c.d = NilInt \/ other.d = NilInt
    THEN AddErr("missing common denominator")
    ELSE IF c.d # other.d
    THEN AddErr("mismatched common denominators")
    ELSE [err |-> NoErr,
          ct  |-> [c1 |-> (c.c1 + other.c1) % c.d,
                   c2 |-> (c.c2 + other.c2) % c.d,
                   d  |-> c.d,
                   n  |-> Max(other.n, c.n)]]

\* the loop of AddMany from index i on, acc holding the fold so far
RECURSIVE AddManyLoop(_, _, _, _)
AddManyLoop(prec, cts, acc, i) ==
    IF i > Len(cts) THEN [err |-> NoErr, ct |-> acc]
    ELSE LET step == Add(acc, cts[i], prec) IN
         IF step.err # NoErr THEN AddErr(step.err)
         ELSE AddManyLoop(prec, cts, step.ct, i + 1)

\* AddMany whose loop starts at index 1, adding cts[0] to itself
AddManyFromFirst(prec, cts) ==
    IF Len(cts) = 0 THEN AddErr("no ciphertexts")
    ELSE AddManyLoop(prec, cts, cts[1], 1)

AddMany(prec, cts) ==
    IF Len(cts) = 0 THEN AddErr("no ciphertexts")
    ELSE AddManyLoop(prec, cts, cts[1], 2)

\* ------------------------------------------------------------------------
\*  Decryption
\* ------------------------------------------------------------------------

\* MPrime = c2 - (a * c1 mod d), plus d when negative
MPrimeOf(sk, ct) ==
    LET aC1 == (sk.A * ct.c1) % ct.d
        diff == ct.c2 - aC1
    IN  IF diff < 0 THEN diff + ct.d ELSE diff

\* DivMod by the scale factor with the rounding step left out
TruncatedQuotient(mPrime, scaleFactor) == mPrime \div scaleFactor

\* DivMod by the scale factor and the round-half-up step
RoundedQuotient(mPrime, scaleFactor) ==
    LET q   == mPrime \div scaleFactor
        rem == mPrime % scaleFactor
        halfScale == scaleFactor \div 2
    IN  IF rem # 0 /\ rem >= halfScale THEN q + 1 ELSE q

\* the remainder Decrypt computes on the way (a local of the function)
DecryptRemainder(sk, ct) == MPrimeOf(sk, ct) % (2 ^ (sk.PK.Prec - ct.n))

DecryptDigits(sk, ct) ==
    IF ct.d = NilInt THEN [err |-> "missing common denominator", digits |-> <<>>]
    ELSE IF sk.PK.Prec < ct.n THEN [err |-> "precision too small", digits |-> <<>>]
    ELSE LET messageInt == RoundedQuotient(MPrimeOf(sk, ct), 2 ^ (sk.PK.Prec - ct.n))
         IN  [err |-> NoErr, digits |-> FormatPadded(ct.n, messageInt)]

DecryptVote(sk, ct) ==
    LET plain == DecryptDigits(sk, ct) IN
    IF plain.err # NoErr THEN [err |-> plain.err, val |-> 0]
    ELSE [err |-> NoErr, val |-> DigitsToInt(plain.digits)]

Decrypt(sk, ct) ==
    IF ct.d = NilInt THEN [err |-> "missing common denominator", plain |-> <<>>]
    ELSE IF sk.PK.Prec < Uint16(ct.n) THEN [err |-> "precision too small", plain |-> <<>>]
    ELSE IF ct.n > sk.PK.Prec THEN [err |-> "shift count wraps", plain |-> <<>>]
    ELSE LET messageInt == RoundedQuotient(MPrimeOf(sk, ct), 2 ^ (sk.PK.Prec - ct.n))
         IN  digitsToASCII(FormatPadded(ct.n, messageInt))

\* ------------------------------------------------------------------------
\*  The carry-propagating implementation: C1 mod 2^Prec, C2 mod 10^n
\* ------------------------------------------------------------------------

NilLegacyPk == [XInt |-> NilInt, HInt |-> NilInt, Prec |-> 0]
NilLegacySk == [A |-> NilInt, PK |-> NilLegacyPk]
NilLegacyCt == [c1Int |-> NilInt, c2Int |-> NilInt, n |-> 0 - 1]

LegacyKeyGenErr(e) == [err |-> e, sk |-> NilLegacySk, pk |-> NilLegacyPk]

\* KeyGen: xInt = floor(x * 2^Prec), hInt = floor(h * 2^Prec)
LegacyKeyGen(precBits, xString, rnd) ==
    IF precBits < MinPrec THEN LegacyKeyGenErr("precision too small")
    ELSE IF ~xString.ok THEN LegacyKeyGenErr("invalid x string")
    ELSE LET x == SetString(xString, precBits) IN
         IF x.sgn <= 0 \/ CmpOneGE(x) THEN LegacyKeyGenErr("x must satisfy 0 < x < 1")
         ELSE IF rnd = RngFail THEN LegacyKeyGenErr("rng failure")
         ELSE LET a    == IF rnd = 0 THEN 1 ELSE rnd
                  h    == mulIntFloatMod1(a, x, precBits)
                  xInt == intFromFloat(x, precBits)
                  hInt == intFromFloat(h, precBits)
              IN  IF xInt.err # NoErr THEN LegacyKeyGenErr(xInt.err)
                  ELSE IF hInt.err # NoErr THEN LegacyKeyGenErr(hInt.err)
                  ELSE LET key == [XInt |-> xInt.i, HInt |-> hInt.i, Prec |-> precBits]
                       IN  [err |-> NoErr, sk |-> [A |-> a, PK |-> key], pk |-> key]

\* EncryptDeterministic: the mask is Rn = floor((r * hInt mod 2^Prec) * 10^n / 2^Prec)
LegacyEncryptDeterministic(lpk, m, r) ==
    LET prec   == lpk.Prec
        n      == Len(asciiToDigits(m))
        twoPow == 2 ^ prec
        c1Int  == (r * lpk.XInt) % twoPow
        Rint   == (r * lpk.HInt) % twoPow
        Rn     == (Rint * (10 ^ n)) \div twoPow
        Mint   == DigitsToInt(asciiToDigits(m))
        c2Int  == (Mint + Rn) % (10 ^ n)
    IN  [err |-> NoErr, ct |-> [c1Int |-> c1Int, c2Int |-> c2Int, n |-> n]]

LegacyAddErr(e) == [err |-> e, ct |-> NilLegacyCt]

\* Add: C1 summed mod 2^prec, the carry of that sum added to the C2 sum
LegacyAdd(c, other, prec) ==
    IF c = NilLegacyCt \/ other = NilLegacyCt \/ c.c1Int = NilInt
          \/ other.c1Int = NilInt
    THEN LegacyAddErr("nil ciphertext")
    ELSE IF prec = 0 THEN LegacyAddErr("invalid precision")
    ELSE LET mod2   == 2 ^ prec
             sumInt == c.c1Int + other.c1Int
             carry  == sumInt >= mod2
         IN  IF c.n % 3 # 0 \/ other.n % 3 # 0
             THEN LegacyAddErr("malformed C2 digit counts")
             ELSE LET n0 == Max(other.n, c.n)
                      n  == IF n0 % 3 # 0 THEN n0 + 3 - (n0 % 3) ELSE n0
                      sumC2 == c.c2Int + other.c2Int + (IF carry THEN 1 ELSE 0)
                  IN  [err |-> NoErr,
                       ct  |-> [c1Int |-> IF carry THEN sumInt - mod2 ELSE sumInt,
                                c2Int |-> sumC2 % (10 ^ n),
                                n     |-> n]]

\* Decrypt: the mask is recomputed from a * C1; msgDigits is the digit string
\* handed to digitsToASCII
LegacyDecrypt(lsk, ct) ==
    LET prec   == lsk.PK.Prec
        n      == ct.n
        twoPow == 2 ^ prec
        Rint   == (lsk.A * ct.c1Int) % twoPow
        Rn     == (Rint * (10 ^ n)) \div twoPow
        diff   == ct.c2Int - Rn
        Mint   == IF diff < 0 THEN diff + 10 ^ n ELSE diff
        msgDigits == FormatPadded(n, Mint)
        out    == digitsToASCII(msgDigits)
    IN  [op |-> "Decrypt", err |-> out.err, digits |-> msgDigits, plain |-> out.plain]

\* ------------------------------------------------------------------------
\*  State
\* ------------------------------------------------------------------------

VARIABLES
    sk,      \* the private key of the session (NilSk before KeyGen succeeds)
    pk,      \* its public key
    tally,   \* the running aggregate ciphertext (NilCt before the first ballot)
    sum,     \* the native integer sum of the message integers folded into tally
    count,   \* how many ciphertexts were folded into tally
    ns,      \* the digit widths n of the ciphertexts folded into tally
    kinds,   \* the operations that encrypted them
    res,     \* what the last call returned
    box,     \* the operands handed to one aggregation
    agg,     \* what the last aggregation call returned
    call,    \* the last encryption call: its arguments, what it returned, and
             \* what the same call returned when it was made again
    floatPk, \* the public key as MarshalBinary reads it: Prec, X, H
    pkbin,   \* what MarshalBinary returned
    pk2,     \* an UnmarshalBinary call: the receiver before, the blob, the
             \* receiver after and the error
    kg,      \* a KeyGen call: its arguments and what it returned
    codec,   \* a codec call: its argument and what it returned
    heap,    \* the big.Int values that live objects point to, by reference
    objs,    \* the live ciphertext objects: references into heap, and n
    last,    \* the last operation on live objects: the heap before it, the
             \* live part of the heap after it, and what it returned
    legacy   \* the same session run by the carry-propagating implementation:
             \* its key pair, its running tally and what its Decrypt returned

\* the variables of the encryption calls and of the key blob
encVars == <<call>>
blobVars == <<floatPk, pkbin, pk2>>

keyVars == <<kg>>
codecVars == <<codec>>
heapVars == <<heap, objs, last>>
legacyVars == <<legacy>>

aux == <<encVars, blobVars, keyVars, codecVars, heapVars, legacyVars>>

\* what the calls of one group leave alone
exceptEnc == <<blobVars, keyVars, codecVars, heapVars, legacyVars>>
exceptBlob == <<encVars, keyVars, codecVars, heapVars, legacyVars>>
exceptKey == <<encVars, blobVars, codecVars, heapVars, legacyVars>>
exceptCodec == <<encVars, blobVars, keyVars, heapVars, legacyVars>>
exceptHeap == <<encVars, blobVars, keyVars, codecVars, legacyVars>>
exceptLegacy == <<encVars, blobVars, keyVars, codecVars, heapVars>>

\* the variables of the tallying session, the received ciphertexts and the box
session == <<sk, pk, tally, sum, count, ns, kinds, res, box, agg>>

vars == <<sk, pk, tally, sum, count, ns, kinds, res, box, agg, aux>>

NoRes == [op |-> "none", err |-> NoErr, val |-> 0, digits |-> <<>>,
          plain |-> <<>>, rem |-> 0, arg |-> NilCt]

NoAgg == [op |-> "none", i |-> 0, j |-> 0, out |-> AddErr(NoErr)]

NoKg == [precBits |-> 0, xString |-> [ok |-> FALSE, neg |-> FALSE, num |-> 0, den |-> 1], rnd |-> 0,
         out |-> KeyGenErr("not called")]

NoCodec == [op |-> "none", arg |-> <<>>, out |-> [err |-> NoErr, plain |-> <<>>]]

NoLast == [op |-> "none"]

NoLegacy == [sk |-> NilLegacySk, tally |-> NilLegacyCt,
             res |-> [op |-> "none", err |-> NoErr, digits |-> <<>>, plain |-> <<>>]]

NoBlob == [err |-> "not called", data |-> <<>>]

NoPk2 == [err |-> "not called", before |-> NilFloatPk, data |-> <<>>,
          after |-> NilFloatPk]

NoCall == [op |-> "none", m |-> <<>>, r |-> NilInt, rnd |-> 0,
           out |-> EncErr(NoErr), again |-> EncErr(NoErr)]

\* ------------------------------------------------------------------------
\*  Inputs
\* ------------------------------------------------------------------------

PrecInputs == (MinPrec - 1) .. MaxPrec

Dec(num, den) == [ok |-> TRUE, neg |-> FALSE, num |-> num, den |-> den]

\* "0.61", "0.3", "0.9999", "0", "1.5", "-0.5" and a text that does not parse
XStrings ==
    { Dec(61, 100), Dec(3, 10), Dec(9999, 10000), Dec(0, 1), Dec(3, 2),
      [ok |-> TRUE, neg |-> TRUE, num |-> 1, den |-> 2],
      [ok |-> FALSE, neg |-> FALSE, num |-> 0, den |-> 1] }

\* randomizers supplied by the caller: the smallest ones and the largest
Randomizers == {1, 2, 2 ^ ScalarBits - 1}

VoteInputs == {0, 1, MaxVote, MaxVote + 1}

\* 10^n - 1, a short string and one digit too many
DigitInputs ==
    { FormatPadded(VoteDigits, 10 ^ VoteDigits - 1), <<7>>, Zeros(VoteDigits + 1) }

\* one-byte ballots 1 and 63, and a text too long for every precision drawn
ByteInputs == { <<1>>, <<63>>, <<72, 101, 108, 108, 111>> }

\* ------------------------------------------------------------------------
\*  The tallying session
\* ------------------------------------------------------------------------

Init ==
    /\ sk = NilSk
    /\ pk = NilPk
    /\ tally = NilCt
    /\ sum = 0
    /\ count = 0
    /\ ns = {}
    /\ kinds = {}
    /\ res = NoRes
    /\ box = <<>>
    /\ agg = NoAgg
    /\ call = NoCall
    /\ floatPk = NilFloatPk
    /\ pkbin = NoBlob
    /\ pk2 = NoPk2
    /\ kg = NoKg
    /\ codec = NoCodec
    /\ heap = <<>>
    /\ objs = <<>>
    /\ last = NoLast
    /\ legacy = NoLegacy

KeyGenOp ==
    /\ sk = NilSk
    /\ \E precBits \in PrecInputs, xString \in XStrings,
          rnd \in RngOutputs \cup {RngFail} :
          LET k == KeyGen(precBits, xString, rnd) IN
          /\ sk' = k.sk
          /\ pk' = k.pk
          /\ res' = [NoRes EXCEPT !.op = "KeyGen", !.err = k.err]
    /\ UNCHANGED <<tally, sum, count, ns, kinds, box, agg, aux>>

\* one ballot: encrypt, then tally = ct for the first one and
\* tally = tally.Add(ct, pk.Prec) afterwards; enc is what the encryption returned
Fold(op, enc, messageInt) ==
    IF enc.err # NoErr
    THEN /\ res' = [NoRes EXCEPT !.op = op, !.err = enc.err]
         /\ UNCHANGED <<tally, sum, count, ns, kinds>>
    ELSE LET added == IF tally = NilCt THEN [err |-> NoErr, ct |-> enc.ct]
                      ELSE Add(tally, enc.ct, pk.Prec)
         IN  IF added.err # NoErr
             THEN /\ res' = [NoRes EXCEPT !.op = "Add", !.err = added.err]
                  /\ UNCHANGED <<tally, sum, count, ns, kinds>>
             ELSE /\ tally' = added.ct
                  /\ sum' = sum + messageInt
                  /\ count' = count + 1
                  /\ ns' = ns \cup {enc.ct.n}
                  /\ kinds' = kinds \cup {op}
                  /\ res' = [NoRes EXCEPT !.op = op]

CastVote ==
    /\ pk # NilPk
    /\ count < MaxAdds
    /\ \E vote \in VoteInputs, r \in Randomizers \cup {NilInt}, rnd \in RngOutputs :
          /\ r # NilInt => rnd = 0
          /\ Fold("EncryptVote", EncryptVote(pk, vote, r, rnd), vote)
    /\ UNCHANGED <<sk, pk, box, agg, aux>>

CastDigits ==
    /\ pk # NilPk
    /\ count < MaxAdds
    /\ \E msgDigits \in DigitInputs, r \in Randomizers :
          Fold("encryptDigits", encryptDigits(pk, msgDigits, r, 0),
               DigitsToInt(msgDigits))
    /\ UNCHANGED <<sk, pk, box, agg, aux>>

CastBytes ==
    /\ pk # NilPk
    /\ count < MaxAdds
    /\ \E m \in ByteInputs, r \in Randomizers :
          Fold("EncryptDeterministic", EncryptDeterministic(pk, m, r),
               DigitsToInt(asciiToDigits(m)))
    /\ UNCHANGED <<sk, pk, box, agg, aux>>

\* the value returned by DecryptVote / DecryptDigits for ct, with the
\* remainder the function computed
VoteResult(ct) ==
    LET d == DecryptDigits(sk, ct)
        v == DecryptVote(sk, ct)
    IN  [NoRes EXCEPT !.op = "DecryptVote", !.err = v.err, !.val = v.val,
                      !.digits = d.digits,
                      !.rem = IF v.err = NoErr THEN DecryptRemainder(sk, ct) ELSE 0]

ByteResult(ct) ==
    LET b == Decrypt(sk, ct) IN
    [NoRes EXCEPT !.op = "Decrypt", !.err = b.err, !.plain = b.plain,
                  !.rem = IF b.err # "missing common denominator"
                             /\ b.err # "precision too small"
                             /\ b.err # "shift count wraps"
                          THEN DecryptRemainder(sk, ct) ELSE 0]

DecryptVoteOp ==
    /\ sk # NilSk
    /\ tally # NilCt
    /\ res' = VoteResult(tally)
    /\ UNCHANGED <<sk, pk, tally, sum, count, ns, kinds, box, agg, aux>>

DecryptOp ==
    /\ sk # NilSk
    /\ tally # NilCt
    /\ res' = ByteResult(tally)
    /\ UNCHANGED <<sk, pk, tally, sum, count, ns, kinds, box, agg, aux>>

\* ciphertexts handed to the session from outside: ballots encrypted under
\* another key pair (of the same and of another precision), and Ciphertext
\* values of the session's own domain whose components are or are not below D
OtherPks == { KeyGen(precBits, Dec(61, 100), 1).pk : precBits \in MinPrec .. MaxPrec }

ReceivedCts ==
    { EncryptVote(other, 1, 1, 0).ct : other \in OtherPks }
    \cup { [c1 |-> c1, c2 |-> c2, d |-> pk.D, n |-> VoteDigits] :
               c1 \in {0, pk.D}, c2 \in {pk.D - 1, pk.D + 3 * (2 ^ (pk.Prec - VoteDigits))} }

DecryptReceived ==
    /\ sk # NilSk
    /\ \E ct \in ReceivedCts :
          \/ res' = [VoteResult(ct) EXCEPT !.arg = ct]
          \/ res' = [ByteResult(ct) EXCEPT !.arg = ct]
    /\ UNCHANGED <<sk, pk, tally, sum, count, ns, kinds, box, agg, aux>>

Next ==
    \/ KeyGenOp
    \/ CastVote
    \/ CastDigits
    \/ CastBytes
    \/ DecryptVoteOp
    \/ DecryptOp

Spec == Init /\ [][Next]_vars

\* a key holder decrypting what it receives
InitRecv == Init

NextRecv ==
    \/ KeyGenOp
    \/ DecryptReceived

SpecRecv == InitRecv /\ [][NextRecv]_vars

\* ------------------------------------------------------------------------
\*  Aggregation of a box of ciphertexts
\* ------------------------------------------------------------------------

\* a key pair of the smallest and one of the largest precision
AggKeys ==
    { KeyGen(MinPrec, Dec(61, 100), 2 ^ ScalarBits - 1),
      KeyGen(MaxPrec, Dec(61, 100), 1) }

\* a vote (n = VoteDigits) and a two-byte text (n = 6), each under the
\* smallest and the largest randomizer
BoxInputs ==
    { EncryptVote(k.pk, 1, r, 0).ct : k \in AggKeys, r \in {1, 2 ^ ScalarBits - 1} }
    \cup { EncryptDeterministic(k.pk, <<0, 105>>, r).ct :
               k \in AggKeys, r \in {1, 2 ^ ScalarBits - 1} }

\* the prec argument of Add and AddMany (callers pass pk.Prec)
AggPrec == MaxPrec

\* a reduction of cts by workers: "left" folds from the left, "right" from
\* the right, "tree" halves the operands and combines the two partial sums
RECURSIVE Reduce(_, _)
Reduce(cts, shape) ==
    IF Len(cts) = 1 THEN [err |-> NoErr, ct |-> cts[1]]
    ELSE LET k  == IF shape = "left" THEN Len(cts) - 1
                   ELSE IF shape = "right" THEN 1
                   ELSE Len(cts) \div 2
             lo == Reduce(SubSeq(cts, 1, k), shape)
             hi == Reduce(SubSeq(cts, k + 1, Len(cts)), shape)
         IN  IF lo.err # NoErr THEN AddErr(lo.err)
             ELSE IF hi.err # NoErr THEN AddErr(hi.err)
             ELSE Add(lo.ct, hi.ct, AggPrec)

Permuted(cts, perm) == [i \in 1 .. Len(cts) |-> cts[perm[i]]]

InitAgg == Init

\* operands are collected first; one call then aggregates the box
Submit ==
    /\ agg = NoAgg
    /\ Len(box) < MaxBox
    /\ \E ct \in BoxInputs : box' = Append(box, ct)
    /\ UNCHANGED <<sk, pk, tally, sum, count, ns, kinds, res, agg, aux>>

AddOp ==
    /\ agg = NoAgg
    /\ \E i \in 1 .. Len(box), j \in 1 .. Len(box) :
          agg' = [op |-> "Add", i |-> i, j |-> j,
                  out |-> Add(box[i], box[j], AggPrec)]
    /\ UNCHANGED <<sk, pk, tally, sum, count, ns, kinds, res, box, aux>>

AddManyOp ==
    /\ agg = NoAgg
    /\ agg' = [op |-> "AddMany", i |-> 0, j |-> 0, out |-> AddMany(AggPrec, box)]
    /\ UNCHANGED <<sk, pk, tally, sum, count, ns, kinds, res, box, aux>>

ReduceOp ==
    /\ agg = NoAgg
    /\ Len(box) >= 1
    /\ \E perm \in Permutations(1 .. Len(box)), shape \in {"left", "right", "tree"} :
          agg' = [op |-> "Reduce", i |-> 0, j |-> 0,
                  out |-> Reduce(Permuted(box, perm), shape)]
    /\ UNCHANGED <<sk, pk, tally, sum, count, ns, kinds, res, box, aux>>

NextAgg ==
    \/ Submit
    \/ AddOp
    \/ AddManyOp
    \/ ReduceOp

SpecAgg == InitAgg /\ [][NextAgg]_vars

\* ------------------------------------------------------------------------
\*  Claims about the tallying session
\* ------------------------------------------------------------------------

\* the integer a decrypted byte string stands for
PlainInt(plain) == DigitsToInt(asciiToDigits(plain))

\* C1: decrypting a fresh single encryption of m < 10^n returns exactly m,
\* for every key of KeyGen and every randomizer: DecryptVote for a ciphertext
\* of EncryptVote / encryptDigits, Decrypt for one of EncryptDeterministic
C1_RoundTrip ==
    /\ (res.op = "DecryptVote" /\ count = 1
            /\ kinds \subseteq {"EncryptVote", "encryptDigits"})
         => (res.err = NoErr /\ res.val = sum)
    /\ (res.op = "Decrypt" /\ count = 1 /\ kinds = {"EncryptDeterministic"})
         => (res.err = NoErr /\ PlainInt(res.plain) = sum)

\* C2: the sum of two ciphertexts of one key and one digit width n decrypts to
\* (m1 + m2) mod 10^n
C2_AddHomomorphic ==
    /\ (res.op = "DecryptVote" /\ count = 2 /\ ns = {VoteDigits})
         => (res.err = NoErr /\ res.val = sum % (10 ^ VoteDigits))
    /\ (res.op = "Decrypt" /\ count = 2 /\ kinds = {"EncryptDeterministic"}
            /\ ns = {ByteDigits})
         => (res.err = NoErr /\ PlainInt(res.plain) = sum % (10 ^ ByteDigits))

\* C3: at every prefix of a sequence of votes in [0, MaxVote] folded into the
\* tally, DecryptVote of the tally is the exact sum of the votes so far
C3_ZeroDrift ==
    (res.op = "DecryptVote" /\ count >= 1 /\ kinds = {"EncryptVote"})
        => (res.err = NoErr /\ res.val = sum % (10 ^ VoteDigits))

\* C4: the remainder Mprime mod 2^(P-n) computed while decrypting a fresh
\* single encryption is exactly 0
C4_ScalingInvariant ==
    (res.op \in {"DecryptVote", "Decrypt"} /\ count = 1) => res.rem = 0

\* C5: what DecryptVote returns for a tally is reduced modulo 10^n: it lies
\* in [0, 10^n) and its decimal string has exactly n digits
C5_DecryptReduced ==
    (res.op = "DecryptVote" /\ res.err = NoErr)
        => (res.val < 10 ^ tally.n /\ Len(res.digits) = tally.n)

\* the difference c2 - (a * c1 mod d) of the decrypted tally, before any
\* correction
TallyDiff == tally.c2 - ((sk.A * tally.c1) % tally.d)

\* the decryption went past its guards and produced digits
Decoded ==
    \/ res.op = "DecryptVote" /\ res.err = NoErr
    \/ /\ res.op = "Decrypt"
       /\ res.err \notin {"missing common denominator", "precision too small",
                          "shift count wraps"}

\* the text a decryption returns for the message integer q of the tally
Returned(q) ==
    IF res.op = "DecryptVote" THEN res.digits = FormatPadded(tally.n, q)
    ELSE [err |-> res.err, plain |-> res.plain]
             = digitsToASCII(FormatPadded(tally.n, q))

\* C27: MPrime is the difference c2 - (a * c1 mod D), plus D exactly when
\* the difference is negative, and lies in [0, D); with q = MPrime div
\* 2^(P-n) and rem = MPrime mod 2^(P-n) the decryption returns q + 1 iff
\* rem >= 2^(P-n-1) (that is, 2 * rem >= 2^(P-n)) and q otherwise; when
\* rem = 0 it returns q
C27_RoundHalfUp ==
    Decoded =>
        LET scale == 2 ^ (sk.PK.Prec - tally.n)
            mPrime == TallyDiff + (IF TallyDiff < 0 THEN tally.d ELSE 0)
            q   == mPrime \div scale
        IN  /\ 0 <= mPrime /\ mPrime < tally.d
            /\ res.rem = mPrime % scale
            /\ 2 * res.rem >= scale => Returned(q + 1)
            /\ 2 * res.rem < scale => Returned(q)
            /\ res.rem = 0 => Returned(q)

\* a negative difference was corrected and the quotient was rounded up
C27_Witness ==
    /\ res.op = "DecryptVote"
    /\ res.err = NoErr
    /\ TallyDiff < 0
    /\ res.rem # 0
    /\ 2 * res.rem >= 2 ^ (sk.PK.Prec - tally.n)
    /\ res.digits = FormatPadded(tally.n,
           (TallyDiff + tally.d) \div (2 ^ (sk.PK.Prec - tally.n)) + 1)

\* ------------------------------------------------------------------------
\*  Claims about decrypting received ciphertexts
\* ------------------------------------------------------------------------

\* C9: Decrypt and DecryptVote fail when the ciphertext's D differs from the
\* D of the private key's public key
C9_DecryptDomainMismatch ==
    (res.op \in {"DecryptVote", "Decrypt"} /\ res.arg # NilCt
        /\ res.arg.d # sk.PK.D) => res.err # NoErr

\* C10: Decrypt and DecryptVote fail when C1 >= D or C2 >= D
C10_DecryptMalformed ==
    (res.op \in {"DecryptVote", "Decrypt"} /\ res.arg # NilCt
        /\ (res.arg.c1 >= res.arg.d \/ res.arg.c2 >= res.arg.d)) => res.err # NoErr

\* ------------------------------------------------------------------------
\*  Claims about aggregation
\* ------------------------------------------------------------------------

MismatchErr == "mismatched common denominators"

\* C28: Add of two operands of one domain D succeeds and returns
\* C1 = (C1 + C1') mod D, C2 = (C2 + C2') mod D, the same D, and the larger
\* of the two digit counts
C28_ComponentwiseSum ==
    (agg.op = "Add" /\ box[agg.i].d = box[agg.j].d) =>
        LET a == box[agg.i]
            b == box[agg.j]
            D == a.d
        IN  /\ agg.out.err = NoErr
            /\ agg.out.ct.c1 = (a.c1 + b.c1) % D
            /\ agg.out.ct.c2 = (a.c2 + b.c2) % D
            /\ agg.out.ct.d = D
            /\ agg.out.ct.n >= a.n /\ agg.out.ct.n >= b.n
            /\ agg.out.ct.n \in {a.n, b.n}

\* a vote was added to a longer text of the same domain and both sums
\* wrapped D
C28_Witness ==
    /\ agg.op = "Add"
    /\ agg.i # agg.j
    /\ box[agg.i].d = box[agg.j].d
    /\ box[agg.i].n < box[agg.j].n
    /\ box[agg.i].c1 + box[agg.j].c1 >= box[agg.i].d
    /\ box[agg.i].c2 + box[agg.j].c2 >= box[agg.i].d
    /\ agg.out.err = NoErr
    /\ agg.out.ct.n = box[agg.j].n

\* C6: combining the operands of the box in any order and any grouping gives
\* the identical result (ciphertext, or failure) as the left fold AddMany
C6_OrderIndependent ==
    agg.op = "Reduce" => agg.out = AddMany(AggPrec, box)

\* three different operands of one domain were combined by a reduction
C6_Witness ==
    /\ agg.op = "Reduce"
    /\ Len(box) = 3
    /\ agg.out.err = NoErr
    /\ box[1] # box[2] /\ box[2] # box[3] /\ box[1] # box[3]
    /\ box[1].n # box[2].n

\* the fold Add(...Add(Add(cts[1], cts[2]), cts[3])..., cts[k]) of a non-empty
\* sequence, a failing Add ending it
RECURSIVE LeftFold(_)
LeftFold(cts) ==
    IF Len(cts) = 1 THEN [err |-> NoErr, ct |-> cts[1]]
    ELSE LET prev == LeftFold(SubSeq(cts, 1, Len(cts) - 1)) IN
         IF prev.err # NoErr THEN AddErr(prev.err)
         ELSE Add(prev.ct, cts[Len(cts)], AggPrec)

\* C7: AddMany returns the left-to-right fold of a non-empty sequence, and an
\* empty-aggregation error and no ciphertext for an empty one
C7_AddManyLeftFold ==
    agg.op = "AddMany" =>
        IF Len(box) = 0
        THEN agg.out.err = "no ciphertexts" /\ agg.out.ct = NilCt
        ELSE agg.out = LeftFold(box)

\* AddMany folded three operands of one domain
C7_Witness ==
    /\ agg.op = "AddMany"
    /\ Len(box) = 3
    /\ agg.out.err = NoErr
    /\ agg.out.ct # box[1]
    /\ box[2] # box[3]

\* C8: Add fails with the mismatch error and no ciphertext when the operands'
\* D differ, and so does AddMany when an element's D differs from the first's
C8_AddDomainMismatch ==
    /\ (agg.op = "Add" /\ box[agg.i].d # box[agg.j].d)
         => (agg.out.err = MismatchErr /\ agg.out.ct = NilCt)
    /\ (agg.op = "AddMany" /\ \E k \in 1 .. Len(box) : box[k].d # box[1].d)
         => (agg.out.err = MismatchErr /\ agg.out.ct = NilCt)

\* AddMany met the foreign D at its last element, after a partial tally
C8_Witness ==
    /\ agg.op = "AddMany"
    /\ Len(box) = 3
    /\ box[2].d = box[1].d
    /\ box[3].d # box[1].d
    /\ agg.out.err = MismatchErr

\* both components are representatives modulo the ciphertext's D
InRange(ct) == 0 <= ct.c1 /\ ct.c1 < ct.d /\ 0 <= ct.c2 /\ ct.c2 < ct.d

\* C22: every ciphertext that exists after EncryptDeterministic, EncryptVote,
\* Add and AddMany calls under keys of KeyGen has 0 <= C1 < D and 0 <= C2 < D
C22_RangeInvariant ==
    /\ \A i \in 1 .. Len(box) : InRange(box[i])
    /\ (agg.op # "none" /\ agg.out.err = NoErr) => InRange(agg.out.ct)

\* AddMany summed three ciphertexts whose first components add up to D or more
C22_Witness ==
    /\ agg.op = "AddMany"
    /\ Len(box) = 3
    /\ agg.out.err = NoErr
    /\ box[1].c1 + box[2].c1 >= box[1].d
    /\ box[1].c2 + box[2].c2 + box[3].c2 >= box[1].d

\* ------------------------------------------------------------------------
\*  Encryption calls
\* ------------------------------------------------------------------------

\* one byte, two bytes, three bytes, and a text too long for every precision
EncMsgs == ByteInputs \cup { <<0, 105>>, <<0, 0, 7>> }

NotAgain == EncErr(NoErr)

InitEnc == Init

EncryptVoteOp ==
    /\ pk # NilPk
    /\ call = NoCall
    /\ \E vote \in VoteInputs, r \in Randomizers \cup {NilInt},
          rnd \in RngOutputs \cup {RngFail} :
          call' = [op |-> "EncryptVote", m |-> <<vote>>, r |-> r, rnd |-> rnd,
                   out |-> EncryptVote(pk, vote, r, rnd), again |-> NotAgain]
    /\ UNCHANGED <<sk, pk, tally, sum, count, ns, kinds, res, box, agg, exceptEnc>>

EncryptDeterministicOp ==
    /\ pk # NilPk
    /\ call = NoCall
    /\ \E m \in EncMsgs, r \in Randomizers :
          call' = [op |-> "EncryptDeterministic", m |-> m, r |-> r, rnd |-> 0,
                   out |-> EncryptDeterministic(pk, m, r), again |-> NotAgain]
    /\ UNCHANGED <<sk, pk, tally, sum, count, ns, kinds, res, box, agg, exceptEnc>>

EncryptOp ==
    /\ pk # NilPk
    /\ call = NoCall
    /\ \E m \in EncMsgs, rnd \in RngOutputs \cup {RngFail} :
          call' = [op |-> "Encrypt", m |-> m, r |-> NilInt, rnd |-> rnd,
                   out |-> Encrypt(pk, m, rnd), again |-> NotAgain]
    /\ UNCHANGED <<sk, pk, tally, sum, count, ns, kinds, res, box, agg, exceptEnc>>

\* another operation on the ciphertext the call returned: it is decrypted, or
\* added to itself
UseOp ==
    /\ call.out.err = NoErr
    /\ call.again = NotAgain
    /\ \/ /\ res.arg = NilCt
          /\ res' = [VoteResult(call.out.ct) EXCEPT !.arg = call.out.ct]
          /\ UNCHANGED agg
       \/ /\ agg = NoAgg
          /\ agg' = [op |-> "Add", i |-> 0, j |-> 0,
                     out |-> Add(call.out.ct, call.out.ct, pk.Prec)]
          /\ UNCHANGED res
    /\ UNCHANGED <<sk, pk, tally, sum, count, ns, kinds, box, call, exceptEnc>>

\* the deterministic call is made again with the same pk, m and r, the RNG
\* being in whatever state it is
RepeatOp ==
    /\ call.op \in {"EncryptVote", "EncryptDeterministic"}
    /\ call.r # NilInt
    /\ call.again = NotAgain
    /\ \E rnd \in RngOutputs \cup {RngFail} :
          call' = [call EXCEPT !.again =
                      IF call.op = "EncryptVote"
                      THEN EncryptVote(pk, call.m[1], call.r, rnd)
                      ELSE EncryptDeterministic(pk, call.m, call.r)]
    /\ UNCHANGED <<sk, pk, tally, sum, count, ns, kinds, res, box, agg, exceptEnc>>

NextEnc ==
    \/ KeyGenOp
    \/ EncryptVoteOp
    \/ EncryptDeterministicOp
    \/ EncryptOp
    \/ UseOp
    \/ RepeatOp

SpecEnc == InitEnc /\ [][NextEnc]_vars

\* ------------------------------------------------------------------------
\*  Claims about encryption calls
\* ------------------------------------------------------------------------

\* C11: Encrypt and EncryptDeterministic reject a message of more than n / 3
\* bytes, n the digit width of the public key, and return no ciphertext
C11_PlaintextTooLong ==
    (call.op \in {"Encrypt", "EncryptDeterministic"} /\ call.rnd # RngFail
        /\ 3 * Len(call.m) > pk.N)
        => (call.out.err # NoErr /\ call.out.ct = NilCt)

\* what the RNG hands to a call that was given no randomizer
Drawn(rnd) == IF rnd = 0 THEN 1 ELSE rnd

\* C12: EncryptVote fails with the vote-out-of-range error, no ciphertext and
\* no randomizer exactly when v > 64; for v <= 64 (the RNG delivering when r is
\* not supplied) it succeeds, returns the supplied r, and the ciphertext is
\* that of the n-digit value v under the randomizer returned
C12_EncryptVoteRange ==
    call.op = "EncryptVote" =>
        LET v == call.m[1]
            o == call.out
        IN  /\ (o.err = "vote out of range") <=> (v > MaxVote)
            /\ v > MaxVote => (o.ct = NilCt /\ o.r = NilInt)
            /\ (v <= MaxVote /\ (call.r # NilInt \/ call.rnd # RngFail)) =>
                   /\ o.err = NoErr
                   /\ o.r = IF call.r # NilInt THEN call.r ELSE Drawn(call.rnd)
                   /\ o.ct.c1 = (o.r * pk.XInt) % pk.D
                   /\ o.ct.c2 = (v * 2 ^ (pk.Prec - pk.N) + o.r * pk.HInt) % pk.D
                   /\ o.ct.d = pk.D
                   /\ o.ct.n = pk.N

\* EncryptVote accepted the largest vote with a supplied randomizer
C12_Witness ==
    /\ call.op = "EncryptVote"
    /\ call.m[1] = MaxVote
    /\ call.r = 2
    /\ call.out.err = NoErr
    /\ call.out.r = 2

C23_DomainOfKey ==
    /\ (call.op \in {"EncryptDeterministic", "Encrypt", "EncryptVote"}
            /\ call.out.err = NoErr)
          => (call.out.ct.d = pk.D /\ call.out.ct.n = pk.N)
    /\ (agg.op = "Add" /\ agg.out.err = NoErr)
          => (agg.out.ct.d = pk.D /\ agg.out.ct.n = pk.N)

\* ------------------------------------------------------------------------

\* the shortest text whose digit count does not fit 16 bits
LongMsg == [i \in 1 .. 65536 \div ByteDigits + 1 |-> 0]

\* the text of k bytes, all 0 but the last
ShortMsg(k) == [i \in 1 .. k |-> IF i = k THEN 1 ELSE 0]

\* texts of 1 to MaxPrec div 3 + 1 bytes (the longest has more digits than
\* any precision in use), and the long one
GuardMsgs ==
    { ShortMsg(k) : k \in 1 .. (MaxPrec \div ByteDigits + 1) } \cup { LongMsg }

\* ciphertexts made under a key whose precision is larger than any of the
\* session's keys: a vote, and a text with as many digits as that precision
WiderPk == KeyGen(ByteDigits * (MaxPrec \div ByteDigits + 1), Dec(61, 100), 1).pk

WiderCts ==
    { EncryptVote(WiderPk, 1, 1, 0).ct,
      EncryptDeterministic(WiderPk, ShortMsg(MaxPrec \div ByteDigits + 1), 1).ct }

InitGuard == Init

GuardKeyOp ==
    /\ sk = NilSk
    /\ \E k \in AggKeys :
          /\ sk' = k.sk
          /\ pk' = k.pk
    /\ UNCHANGED <<tally, sum, count, ns, kinds, res, box, agg, aux>>

GuardEncryptOp ==
    /\ pk # NilPk
    /\ call = NoCall
    /\ \E r \in Randomizers :
          \/ \E m \in GuardMsgs :
                call' = [op |-> "EncryptDeterministic", m |-> m, r |-> r, rnd |-> 0,
                         out |-> EncryptDeterministic(pk, m, r), again |-> NotAgain]
          \/ \E vote \in VoteInputs :
                call' = [op |-> "EncryptVote", m |-> <<vote>>, r |-> r, rnd |-> 0,
                         out |-> EncryptVote(pk, vote, r, 0), again |-> NotAgain]
    /\ UNCHANGED <<session, exceptEnc>>

\* Decrypt or DecryptVote of the ciphertext the call returned, or of one made
\* under the wider key
GuardDecryptOp ==
    /\ sk # NilSk
    /\ res = NoRes
    /\ \E ct \in WiderCts \cup (IF call.out.err = NoErr /\ call.op # "none"
                                 THEN {call.out.ct} ELSE {}) :
          \/ res' = [VoteResult(ct) EXCEPT !.arg = ct]
          \/ res' = [ByteResult(ct) EXCEPT !.arg = ct]
    /\ UNCHANGED <<sk, pk, tally, sum, count, ns, kinds, box, agg, aux>>

NextGuard ==
    \/ GuardKeyOp
    \/ GuardEncryptOp
    \/ GuardDecryptOp

SpecGuard == InitGuard /\ [][NextGuard]_vars

\* C21: EncryptDeterministic, EncryptVote, Decrypt and DecryptVote fail with
\* the precision-too-small error, and return no ciphertext or plaintext,
\* whenever the precision of the key is below the digit width n of the
\* operation (3 * len(m) for a byte string, ct.n when decrypting)
C21_PrecisionGuard ==
    /\ (call.op = "EncryptDeterministic" /\ pk.Prec < ByteDigits * Len(call.m))
          => (call.out.err = "precision too small" /\ call.out.ct = NilCt)
    /\ (call.op = "EncryptVote" /\ call.m[1] <= MaxVote /\ call.r # NilInt
            /\ pk.Prec < VoteDigits)
          => (call.out.err = "precision too small" /\ call.out.ct = NilCt)
    /\ (res.op \in {"DecryptVote", "Decrypt"} /\ res.arg # NilCt
            /\ sk.PK.Prec < res.arg.n)
          => (res.err = "precision too small" /\ res.plain = <<>>
                 /\ res.digits = <<>>)

\* C30: no call computes the shift P - n of the scale factor from a digit
\* count above P: a digit count of 2^16 or more does not pass the comparison
\* with the precision
C30_ShiftNeverWraps ==
    /\ call.out.err # "shift count wraps"
    /\ call.again.err # "shift count wraps"
    /\ res.err # "shift count wraps"

\* ------------------------------------------------------------------------
\*  Export and import of the public key
\* ------------------------------------------------------------------------

InitBlob == Init

\* KeyGen, the public key kept in the form MarshalBinary reads
KeyPairOp ==
    /\ sk = NilSk
    /\ \E precBits \in PrecInputs, xString \in XStrings,
          rnd \in RngOutputs \cup {RngFail} :
          LET k == KeyGen(precBits, xString, rnd) IN
          /\ sk' = k.sk
          /\ pk' = k.pk
          /\ res' = [NoRes EXCEPT !.op = "KeyGen", !.err = k.err]
          /\ floatPk' = IF k.err = NoErr THEN FloatKey(precBits, xString, k.sk.A)
                        ELSE NilFloatPk
    /\ UNCHANGED <<tally, sum, count, ns, kinds, box, agg, pkbin, pk2, exceptBlob>>

MarshalOp ==
    /\ sk # NilSk
    /\ pkbin = NoBlob
    /\ pkbin' = MarshalBinary(floatPk)
    /\ UNCHANGED <<sk, pk, tally, sum, count, ns, kinds, res, box, agg,
                   floatPk, pk2, exceptBlob>>

\* a blob with its first two bytes replaced by b1, b2
WithHeader(data, b1, b2) == <<b1, b2>> \o SubSeq(data, 3, Len(data))

\* the exported blob; the blob cut short, extended, and with P set to 0 or to
\* P + 8; and short inputs, one of them with all bits of the X field set
BlobInputs ==
    IF pkbin.err # NoErr
    THEN { <<>>, <<0>>, <<0, 0>>, <<0, 0, 0>>, <<0, 1, 1, 1>>, <<0, 1, 255, 0>> }
    ELSE { pkbin.data,
           SubSeq(pkbin.data, 1, Len(pkbin.data) - 1),
           pkbin.data \o <<0>>,
           WithHeader(pkbin.data, 0, 0),
           WithHeader(pkbin.data, pkbin.data[1], pkbin.data[2] + 8),
           <<>>, <<0>>, <<0, 0>>, <<0, 0, 0>>, <<0, 1, 1, 1>>, <<0, 1, 255, 0>> }

\* UnmarshalBinary on a zero-value receiver, or on the exported key itself
UnmarshalOp ==
    /\ pkbin # NoBlob
    /\ pk2 = NoPk2
    /\ \E data \in BlobInputs, before \in {NilFloatPk, floatPk} :
          LET u == UnmarshalBinary(before, data) IN
          pk2' = [err |-> u.err, before |-> before, data |-> data, after |-> u.key]
    /\ UNCHANGED <<sk, pk, tally, sum, count, ns, kinds, res, box, agg,
                   floatPk, pkbin, exceptBlob>>

NextBlob ==
    \/ KeyPairOp
    \/ MarshalOp
    \/ UnmarshalOp

SpecBlob == InitBlob /\ [][NextBlob]_vars

\* ------------------------------------------------------------------------
\*  Claims about the key blob
\* ------------------------------------------------------------------------

\* x.Cmp(y) = 0 for two floats
FloatEq(f, g) == f.sgn = g.sgn /\ f.m * (2 ^ g.e) = g.m * (2 ^ f.e)

\* C14: MarshalBinary succeeds for every public key of KeyGen, and
\* UnmarshalBinary of its blob succeeds and gives a key with the same
\* precision, the same X and the same H
C14_BlobRoundTrip ==
    /\ (pkbin # NoBlob) => pkbin.err = NoErr
    /\ (pk2 # NoPk2 /\ pkbin.err = NoErr /\ pk2.data = pkbin.data) =>
           /\ pk2.err = NoErr
           /\ pk2.after.Prec = floatPk.Prec
           /\ FloatEq(pk2.after.X, floatPk.X)
           /\ FloatEq(pk2.after.H, floatPk.H)

\* the precision field of a blob of at least two bytes
HeaderPrec(data) == SetBytes(SubSeq(data, 1, 2))

\* C15: UnmarshalBinary fails for a blob whose length is not the one its
\* header implies and for a blob whose precision field is 0, and then leaves
\* the receiver as it was
C15_UnmarshalRejects ==
    (pk2 # NoPk2 /\
        (\/ Len(pk2.data) < 2
         \/ Len(pk2.data) # 2 + 2 * ((HeaderPrec(pk2.data) + 7) \div 8)
         \/ HeaderPrec(pk2.data) = 0))
        => (pk2.err # NoErr /\ pk2.after = pk2.before)

\* a fraction in [0, 1)
InUnit(f) == f.sgn >= 0 /\ (IF f.e >= 0 THEN f.m < 2 ^ f.e ELSE f.m = 0)

\* C24: every key pair of KeyGen has 1 <= a < 2^ScalarBits, P >= n,
\* D = 2^P * 5^n and XInt, HInt in [0, D); every public key UnmarshalBinary
\* accepts has both components in [0, 1)
C24_KeyInvariants ==
    /\ sk # NilSk =>
           /\ 1 <= sk.A /\ sk.A < 2 ^ ScalarBits
           /\ sk.PK = pk
           /\ pk.Prec >= pk.N
           /\ pk.D = (2 ^ pk.Prec) * (5 ^ pk.N)
           /\ 0 <= pk.XInt /\ pk.XInt < pk.D
           /\ 0 <= pk.HInt /\ pk.HInt < pk.D
    /\ (pk2 # NoPk2 /\ pk2.err = NoErr) =>
           (InUnit(pk2.after.X) /\ InUnit(pk2.after.H))

\* ------------------------------------------------------------------------
\*  Key generation calls
\* ------------------------------------------------------------------------

\* precisions below, at and above the smallest one accepted
KeyGenPrecs == {1, MinPrec - 1, MinPrec, MaxPrec}

InitKey == Init

KeyGenCallOp ==
    /\ kg = NoKg
    /\ \E precBits \in KeyGenPrecs, xString \in XStrings,
          rnd \in RngOutputs \cup {RngFail} :
          kg' = [precBits |-> precBits, xString |-> xString, rnd |-> rnd,
                 out |-> KeyGen(precBits, xString, rnd)]
    /\ UNCHANGED <<session, exceptKey>>

\* the key pair returned is put to use
AdoptKeyOp ==
    /\ kg # NoKg
    /\ kg.out.err = NoErr
    /\ sk = NilSk
    /\ sk' = kg.out.sk
    /\ pk' = kg.out.pk
    /\ UNCHANGED <<tally, sum, count, ns, kinds, res, box, agg, aux>>

NextKey ==
    \/ KeyGenCallOp
    \/ AdoptKeyOp

SpecKey == InitKey /\ [][NextKey]_vars

\* ------------------------------------------------------------------------
\*  Claims about key generation
\* ------------------------------------------------------------------------

InvalidXErrs == {"invalid x string", "x must satisfy 0 < x < 1"}

\* C16: KeyGen fails with the precision error exactly when P is below the
\* smallest precision; with P accepted it fails with an invalid-x error when
\* xString does not parse or its value is <= 0 or >= 1; a failing call returns
\* no private and no public key
C16_KeyGenErrors ==
    kg # NoKg =>
        /\ (kg.out.err = "precision too small") <=> (kg.precBits < MinPrec)
        /\ (kg.precBits >= MinPrec /\
               (\/ ~kg.xString.ok
                \/ kg.xString.neg
                \/ kg.xString.num = 0
                \/ kg.xString.num >= kg.xString.den))
             => kg.out.err \in InvalidXErrs
        /\ kg.out.err # NoErr => (kg.out.sk = NilSk /\ kg.out.pk = NilPk)

\* KeyGen accepted the smallest precision
C16_Witness ==
    /\ kg # NoKg
    /\ kg.precBits = MinPrec
    /\ kg.out.err = NoErr
    /\ kg.out.pk.Prec = MinPrec
    /\ sk = kg.out.sk

\* ------------------------------------------------------------------------
\*  Codec calls
\* ------------------------------------------------------------------------

\* byte values: the smallest, one-, two- and three-digit ones, the largest
CodecBytes == {0, 7, 10, 64, 99, 100, 200, 255}

\* the byte strings of length 0, 1 and 2 over CodecBytes
CodecInputs ==
    { <<>> } \cup { <<a>> : a \in CodecBytes }
             \cup { <<a, b>> : a \in CodecBytes, b \in CodecBytes }

\* digit strings handed to the decoder directly: "256", "999", "300", "25",
\* "0651", "065256", "255" and "000"
RawDigits ==
    { <<2, 5, 6>>, <<9, 9, 9>>, <<3, 0, 0>>, <<2, 5>>, <<0, 6, 5, 1>>,
      <<0, 6, 5, 2, 5, 6>>, <<2, 5, 5>>, <<0, 0, 0>> }

InitCodec == Init

EncodeOp ==
    /\ codec = NoCodec
    /\ \E b \in CodecInputs :
          codec' = [op |-> "asciiToDigits", arg |-> b,
                    out |-> [err |-> NoErr, plain |-> asciiToDigits(b)]]
    /\ UNCHANGED <<session, exceptCodec>>

\* the digits of the encoding are decoded
DecodeOp ==
    /\ codec.op = "asciiToDigits"
    /\ codec' = [op |-> "roundtrip", arg |-> codec.arg,
                 out |-> digitsToASCII(codec.out.plain)]
    /\ UNCHANGED <<session, exceptCodec>>

DecodeRawOp ==
    /\ codec = NoCodec
    /\ \E d \in RawDigits :
          codec' = [op |-> "digitsToASCII", arg |-> d, out |-> digitsToASCII(d)]
    /\ UNCHANGED <<session, exceptCodec>>

NextCodec ==
    \/ EncodeOp
    \/ DecodeOp
    \/ DecodeRawOp

SpecCodec == InitCodec /\ [][NextCodec]_vars

\* ------------------------------------------------------------------------
\*  Claims about the codec
\* ------------------------------------------------------------------------

\* the three decimal digits of a byte
ThreeDigits(b) == <<b \div 100, (b \div 10) % 10, b % 10>>

\* C18: a byte string of length k encodes to 3k digits, the i-th group being
\* the three-digit decimal value of the i-th byte, and decoding the encoding
\* gives the byte string back
C18_CodecRoundTrip ==
    /\ codec.op = "asciiToDigits" =>
           /\ Len(codec.out.plain) = 3 * Len(codec.arg)
           /\ \A i \in 1 .. Len(codec.arg) :
                  SubSeq(codec.out.plain, 3 * i - 2, 3 * i) = ThreeDigits(codec.arg[i])
    /\ codec.op = "roundtrip" =>
           (codec.out.err = NoErr /\ codec.out.plain = codec.arg)

\* the round trip of a two-byte string with a byte 0 and the byte 255
C18_Witness ==
    /\ codec.op = "roundtrip"
    /\ codec.arg = <<0, 255>>
    /\ codec.out.plain = <<0, 255>>

\* C19: digitsToASCII fails, and returns no bytes, for a digit string whose
\* length is not a multiple of 3 or that has a three-digit group >= 256
C19_DecodeRejects ==
    (codec.op = "digitsToASCII" /\
        (\/ Len(codec.arg) % 3 # 0
         \/ \E i \in 1 .. (Len(codec.arg) \div 3) :
                DigitsToInt(SubSeq(codec.arg, 3 * i - 2, 3 * i)) >= 256))
        => (codec.out.err # NoErr /\ codec.out.plain = <<>>)

\* ------------------------------------------------------------------------
\*  Tally of one-byte messages
\* ------------------------------------------------------------------------

\* one-byte messages in [0, MaxVote]
ByteVotes == {0, 1, MaxVote}

InitTally == Init

\* a one-byte message is encrypted and put with the others
SubmitByteOp ==
    /\ pk # NilPk
    /\ res.op = "KeyGen"
    /\ Len(box) < MaxBox
    /\ \E v \in ByteVotes, r \in Randomizers :
          LET c == EncryptDeterministic(pk, <<v>>, r) IN
          /\ c.err = NoErr
          /\ box' = Append(box, c.ct)
          /\ sum' = sum + v
    /\ UNCHANGED <<sk, pk, tally, count, ns, kinds, res, agg, aux>>

\* AddMany of the ciphertexts, then Decrypt of what it returned
TallyOp ==
    /\ sk # NilSk
    /\ res.op = "KeyGen"
    /\ Len(box) >= 1
    /\ LET s == AddMany(pk.Prec, box) IN
       /\ agg' = [op |-> "AddMany", i |-> 0, j |-> 0, out |-> s]
       /\ res' = IF s.err # NoErr
                 THEN [NoRes EXCEPT !.op = "AddMany", !.err = s.err]
                 ELSE [ByteResult(s.ct) EXCEPT !.arg = s.ct]
    /\ UNCHANGED <<sk, pk, tally, sum, count, ns, kinds, box, aux>>

NextTally ==
    \/ KeyGenOp
    \/ SubmitByteOp
    \/ TallyOp

SpecTally == InitTally /\ [][NextTally]_vars

\* C20: Decrypt of the AddMany of one-byte messages with values in
\* [0, MaxVote] succeeds and returns the one byte (sum of the values) mod 256
C20_SingleByteTally ==
    agg.op = "AddMany" =>
        (res.op = "Decrypt" /\ res.err = NoErr /\ res.plain = <<sum % 256>>)

\* ------------------------------------------------------------------------
\*  Objects: the big.Int values and fields behind the pointers
\* ------------------------------------------------------------------------
\* heap[ref] is the value a reference points to.  A function of the program
\* is the list of its big.Int calls, each writing its receiver: <<"new", z>>
\* is z := new(big.Int), <<"alias", z, x>> is z := x (a pointer copy),
\* <<"Add", z, x, y>> is z.Add(x, y), and so on; the names are the variables
\* of the source, bound to references by the environment env.

\* the references of the key fields, the same for pk and for sk.PK (the
\* struct copy in KeyGen shares the pointers)
KeyRefs == [XInt |-> 1, HInt |-> 2, D |-> 3, Prec |-> 4, N |-> 5, A |-> 6]

KeyEnv ==
    ("pk.XInt" :> KeyRefs.XInt) @@ ("pk.HInt" :> KeyRefs.HInt)
        @@ ("pk.D" :> KeyRefs.D) @@ ("sk.A" :> KeyRefs.A)

CtEnv(c, c1, c2, d) == (c1 :> c.c1) @@ (c2 :> c.c2) @@ (d :> c.d)

\* one big.Int call on the state st = [h, env]
Step(st, ins) ==
    LET op  == ins[1]
        ref == st.env[ins[2]]
        val(k) == st.h[st.env[ins[k]]]
    IN  IF op = "new"
        THEN [h |-> Append(st.h, 0), env |-> (ins[2] :> (Len(st.h) + 1)) @@ st.env]
        ELSE IF op = "alias"
        THEN [h |-> st.h, env |-> (ins[2] :> st.env[ins[3]]) @@ st.env]
        ELSE IF op = "SetInt" THEN [st EXCEPT !.h[ref] = ins[3]]
        ELSE IF op = "Set" THEN [st EXCEPT !.h[ref] = val(3)]
        ELSE IF op = "Lsh" THEN [st EXCEPT !.h[ref] = val(3) * (2 ^ ins[4])]
        ELSE IF op = "Add" THEN [st EXCEPT !.h[ref] = val(3) + val(4)]
        ELSE IF op = "Sub" THEN [st EXCEPT !.h[ref] = val(3) - val(4)]
        ELSE IF op = "Mul" THEN [st EXCEPT !.h[ref] = val(3) * val(4)]
        ELSE IF op = "Mod" THEN [st EXCEPT !.h[ref] = val(3) % val(4)]
        ELSE IF op = "Div" THEN [st EXCEPT !.h[ref] = val(3) \div val(4)]
        ELSE \* "DivMod": z.DivMod(x, y, m)
             [st EXCEPT !.h = [[st.h EXCEPT ![ref] = val(3) \div val(4)]
                                   EXCEPT ![st.env[ins[5]]] = val(3) % val(4)]]

RECURSIVE Run(_, _)
Run(st, prog) ==
    IF prog = <<>> THEN st ELSE Run(Step(st, Head(prog)), Tail(prog))

\* the value of the variable name in the state st
At(st, name) == st.h[st.env[name]]

\* a ciphertext object read through its references
ValueOf(h, c) == [c1 |-> h[c.c1], c2 |-> h[c.c2], d |-> h[c.d], n |-> h[c.n]]

\* the statements of Add after its checks, as written with the receiver's c1
\* as the accumulator: sumC1 := c.c1.Add(c.c1, other.c1)
AddProgInPlace ==
    << <<"alias", "sumC1", "c.c1">>,
       <<"Add", "sumC1", "c.c1", "other.c1">>,
       <<"Mod", "sumC1", "sumC1", "c.d">>,
       <<"new", "sumC2">>,
       <<"Add", "sumC2", "c.c2", "other.c2">>,
       <<"Mod", "sumC2", "sumC2", "c.d">>,
       <<"new", "d">>,
       <<"Set", "d", "c.d">> >>

\* the statements of Add after its checks
AddProg ==
    << <<"new", "sumC1">>,
       <<"Add", "sumC1", "c.c1", "other.c1">>,
       <<"Mod", "sumC1", "sumC1", "c.d">>,
       <<"new", "sumC2">>,
       <<"Add", "sumC2", "c.c2", "other.c2">>,
       <<"Mod", "sumC2", "sumC2", "c.d">>,
       <<"new", "d">>,
       <<"Set", "d", "c.d">> >>

\* what a call on objects returns: the error, the heap after the call, the
\* object returned (references) and the value returned
OnHeapErr(h, e) == [err |-> e, h |-> h, ct |-> NilCt, val |-> <<>>]

\* the Ciphertext struct literal of a return statement: n is stored in a
\* field of the new struct
NewCt(st, c1, c2, d, n) ==
    [err |-> NoErr,
     h   |-> Append(st.h, n),
     ct  |-> [c1 |-> st.env[c1], c2 |-> st.env[c2], d |-> st.env[d],
              n |-> Len(st.h) + 1],
     val |-> <<>>]

AddOnHeap(h, c, other) ==
    IF c = NilCt \/ other = NilCt THEN OnHeapErr(h, "nil ciphertext")
    ELSE IF h[c.d] # h[other.d] THEN OnHeapErr(h, "mismatched common denominators")
    ELSE LET env == CtEnv(c, "c.c1", "c.c2", "c.d")
                        @@ CtEnv(other, "other.c1", "other.c2", "other.d")
             st  == Run([h |-> h, env |-> env], AddProg)
         IN  NewCt(st, "sumC1", "sumC2", "d", Max(h[other.n], h[c.n]))

\* the loop of AddMany: acc is a pointer, first to cts[0], then to the sums
RECURSIVE AddManyLoopOnHeap(_, _, _, _)
AddManyLoopOnHeap(h, cts, acc, i) ==
    IF i > Len(cts) THEN [err |-> NoErr, h |-> h, ct |-> acc, val |-> <<>>]
    ELSE LET step == AddOnHeap(h, acc, cts[i]) IN
         IF step.err # NoErr THEN OnHeapErr(step.h, step.err)
         ELSE AddManyLoopOnHeap(step.h, cts, step.ct, i + 1)

AddManyOnHeap(h, cts) ==
    IF Len(cts) = 0 THEN OnHeapErr(h, "no ciphertexts")
    ELSE AddManyLoopOnHeap(h, cts, cts[1], 2)

\* the statements shared by EncryptDeterministic and encryptDigits; r is the
\* caller's big.Int
EncryptProg(messageInt, shift, r) ==
    << <<"new", "r">>, <<"SetInt", "r", r>>,
       <<"new", "messageInt">>, <<"SetInt", "messageInt", messageInt>>,
       <<"new", "scaleFactor">>, <<"SetInt", "scaleFactor", 1>>,
       <<"Lsh", "scaleFactor", "scaleFactor", shift>>,
       <<"new", "M">>, <<"Mul", "M", "messageInt", "scaleFactor">>,
       <<"new", "c1">>, <<"Mul", "c1", "r", "pk.XInt">>,
       <<"Mod", "c1", "c1", "pk.D">>,
       <<"new", "rH">>, <<"Mul", "rH", "r", "pk.HInt">>,
       <<"Mod", "rH", "rH", "pk.D">>,
       <<"new", "c2">>, <<"Add", "c2", "M", "rH">>,
       <<"Mod", "c2", "c2", "pk.D">>,
       <<"new", "d">>, <<"Set", "d", "pk.D">> >>

EncryptDeterministicOnHeap(h, m, r) ==
    LET n == Len(asciiToDigits(m)) IN
    IF h[KeyRefs.Prec] < Uint16(n) THEN OnHeapErr(h, "precision too small")
    ELSE IF n > h[KeyRefs.Prec] THEN OnHeapErr(h, "shift count wraps")
    ELSE NewCt(Run([h |-> h, env |-> KeyEnv],
                   EncryptProg(DigitsToInt(asciiToDigits(m)),
                               h[KeyRefs.Prec] - n, r)),
               "c1", "c2", "d", n)

\* EncryptVote with a supplied r, and the encryptDigits it calls
EncryptVoteOnHeap(h, vote, r) ==
    IF vote > MaxVote THEN OnHeapErr(h, "vote out of range")
    ELSE IF h[KeyRefs.Prec] < VoteDigits THEN OnHeapErr(h, "precision too small")
    ELSE NewCt(Run([h |-> h, env |-> KeyEnv],
                   EncryptProg(vote, h[KeyRefs.Prec] - VoteDigits, r)),
               "c1", "c2", "d", VoteDigits)

\* the statements of Decrypt and DecryptDigits up to the sign test
DecryptProg ==
    << <<"new", "aC1">>, <<"Mul", "aC1", "sk.A", "ct.c1">>,
       <<"Mod", "aC1", "aC1", "ct.d">>,
       <<"new", "MPrime">>, <<"Sub", "MPrime", "ct.c2", "aC1">> >>

\* ... from there to the test of the remainder
DivModProg(shift) ==
    << <<"new", "scaleFactor">>, <<"SetInt", "scaleFactor", 1>>,
       <<"Lsh", "scaleFactor", "scaleFactor", shift>>,
       <<"new", "messageInt">>, <<"new", "remainder">>,
       <<"DivMod", "messageInt", "MPrime", "scaleFactor", "remainder">> >>

\* ... and the half of the scale factor
HalfScaleProg ==
    << <<"new", "two">>, <<"SetInt", "two", 2>>,
       <<"new", "halfScale">>, <<"Div", "halfScale", "scaleFactor", "two">> >>

RoundUpProg ==
    << <<"new", "one">>, <<"SetInt", "one", 1>>,
       <<"Add", "messageInt", "messageInt", "one">> >>

\* the arithmetic of Decrypt and DecryptDigits on the objects; the value
\* returned is the digit string
DecryptDigitsOnHeap(h, c) ==
    IF h[KeyRefs.Prec] < h[c.n] THEN OnHeapErr(h, "precision too small")
    ELSE LET s1 == Run([h |-> h, env |-> KeyEnv @@ CtEnv(c, "ct.c1", "ct.c2", "ct.d")],
                       DecryptProg)
             s2 == IF At(s1, "MPrime") < 0
                   THEN Run(s1, << <<"Add", "MPrime", "MPrime", "ct.d">> >>)
                   ELSE s1
             s3 == Run(s2, DivModProg(h[KeyRefs.Prec] - h[c.n]))
             s4 == IF At(s3, "remainder") # 0 THEN Run(s3, HalfScaleProg) ELSE s3
             s5 == IF At(s3, "remainder") # 0
                      /\ At(s4, "remainder") >= At(s4, "halfScale")
                   THEN Run(s4, RoundUpProg) ELSE s4
         IN  [err |-> NoErr, h |-> s5.h, ct |-> NilCt,
              val |-> FormatPadded(h[c.n], At(s5, "messageInt"))]

DecryptOnHeap(h, c) ==
    LET d == DecryptDigitsOnHeap(h, c) IN
    IF d.err # NoErr THEN d
    ELSE LET t == digitsToASCII(d.val) IN
         [err |-> t.err, h |-> d.h, ct |-> NilCt, val |-> t.plain]

\* GetC1Int / GetC2Int: a copy of the component; the value returned is the
\* reference of the copy
GetIntOnHeap(h, ref) ==
    LET st == IF ref = 0
              THEN Run([h |-> h, env |-> <<>>],
                       << <<"new", "z">>, <<"SetInt", "z", 0>> >>)
              ELSE Run([h |-> h, env |-> ("c" :> ref)],
                       << <<"new", "z">>, <<"Set", "z", "c">> >>)
    IN  [err |-> NoErr, h |-> st.h, ct |-> NilCt, val |-> <<st.env["z"]>>]

\* ------------------------------------------------------------------------
\*  Operations on live objects
\* ------------------------------------------------------------------------

\* the key pairs the objects are made with
HeapKeys ==
    { KeyGen(MinPrec, Dec(61, 100), 2 ^ ScalarBits - 1),
      KeyGen(MaxPrec, Dec(3, 10), 2) }

\* a ciphertext of another domain, received from outside
ForeignCt == EncryptVote(KeyGen(MaxPrec + 1, Dec(61, 100), 1).pk, 1, 1, 0).ct

InitHeap == Init

HeapKeyGenOp ==
    /\ heap = <<>>
    /\ \E k \in HeapKeys :
          /\ sk' = k.sk
          /\ pk' = k.pk
          /\ heap' = <<k.pk.XInt, k.pk.HInt, k.pk.D, k.pk.Prec, k.pk.N, k.sk.A>>
    /\ UNCHANGED <<tally, sum, count, ns, kinds, res, box, agg, objs, last,
                   exceptHeap>>

\* the record of a call: the heap before, the part of the heap after that
\* existed before, whether every reference returned is new, what was returned
Record(op, i, j, out) ==
    [op |-> op, i |-> i, j |-> j, err |-> out.err,
     pre |-> heap, post |-> SubSeq(out.h, 1, Len(heap)),
     fresh |-> out.ct # NilCt /\ out.ct.c1 > Len(heap) /\ out.ct.c2 > Len(heap)
                  /\ out.ct.d > Len(heap) /\ out.ct.n > Len(heap),
     ct  |-> IF out.ct = NilCt THEN NilCt ELSE ValueOf(out.h, out.ct),
     val |-> out.val]

\* an encryption; the ciphertext returned stays live
Keep(op, out) ==
    /\ last' = Record(op, 0, 0, out)
    /\ IF out.err # NoErr
       THEN /\ heap' = SubSeq(out.h, 1, Len(heap))
            /\ objs' = objs
       ELSE /\ heap' = SubSeq(out.h, 1, Len(heap))
                          \o <<out.h[out.ct.c1], out.h[out.ct.c2],
                               out.h[out.ct.d], out.h[out.ct.n]>>
            /\ objs' = Append(objs, [c1 |-> Len(heap) + 1, c2 |-> Len(heap) + 2,
                                     d |-> Len(heap) + 3, n |-> Len(heap) + 4])

HeapEncryptOp ==
    /\ heap # <<>>
    /\ Len(objs) < MaxBox
    /\ \E r \in {1, 2 ^ ScalarBits - 1} :
          \/ \E vote \in {1, MaxVote + 1} :
                Keep("EncryptVote", EncryptVoteOnHeap(heap, vote, r))
          \/ Keep("EncryptDeterministic",
                  EncryptDeterministicOnHeap(heap, <<0, 105>>, r))
    /\ UNCHANGED <<session, exceptHeap>>

HeapReceiveOp ==
    /\ heap # <<>>
    /\ Len(objs) < MaxBox
    /\ heap' = heap \o <<ForeignCt.c1, ForeignCt.c2, ForeignCt.d, ForeignCt.n>>
    /\ objs' = Append(objs, [c1 |-> Len(heap) + 1, c2 |-> Len(heap) + 2,
                             d |-> Len(heap) + 3, n |-> Len(heap) + 4])
    /\ last' = NoLast
    /\ UNCHANGED <<session, exceptHeap>>

\* a call whose result is dropped by the caller: what stays is the heap that
\* existed before, as the call left it
Drop(op, i, j, out) ==
    /\ last' = Record(op, i, j, out)
    /\ heap' = SubSeq(out.h, 1, Len(heap))
    /\ objs' = objs

HeapAddOp ==
    /\ \E i \in 1 .. Len(objs), j \in 1 .. Len(objs) :
          Drop("Add", i, j, AddOnHeap(heap, objs[i], objs[j]))
    /\ UNCHANGED <<session, exceptHeap>>

HeapAddManyOp ==
    /\ heap # <<>>
    /\ Drop("AddMany", 0, 0, AddManyOnHeap(heap, objs))
    /\ UNCHANGED <<session, exceptHeap>>

HeapDecryptOp ==
    /\ \E i \in 1 .. Len(objs) :
          \/ Drop("Decrypt", i, 0, DecryptOnHeap(heap, objs[i]))
          \/ Drop("DecryptVote", i, 0, DecryptDigitsOnHeap(heap, objs[i]))
    /\ UNCHANGED <<session, exceptHeap>>

HeapGetOp ==
    /\ \E i \in 1 .. Len(objs) :
          \/ Drop("GetC1Int", i, 0, GetIntOnHeap(heap, objs[i].c1))
          \/ Drop("GetC2Int", i, 0, GetIntOnHeap(heap, objs[i].c2))
    /\ UNCHANGED <<session, exceptHeap>>

NextHeap ==
    \/ HeapKeyGenOp
    \/ HeapEncryptOp
    \/ HeapReceiveOp
    \/ HeapAddOp
    \/ HeapAddManyOp
    \/ HeapDecryptOp
    \/ HeapGetOp

SpecHeap == InitHeap /\ [][NextHeap]_vars

\* ------------------------------------------------------------------------
\*  Claims about objects
\* ------------------------------------------------------------------------

\* the calls on objects return what the functions on values return
HeapAgrees ==
    /\ (last.op = "Add" /\ last.err = NoErr) =>
           last.ct = Add(ValueOf(heap, objs[last.i]), ValueOf(heap, objs[last.j]),
                         pk.Prec).ct
    /\ (last.op = "EncryptVote" /\ last.err = NoErr) =>
           \E r \in Randomizers : last.ct = EncryptVote(pk, 1, r, 0).ct
    /\ (last.op = "DecryptVote" /\ last.err = NoErr) =>
           last.val = DecryptDigits(sk, ValueOf(heap, objs[last.i])).digits
    /\ (last.op = "Decrypt") =>
           last.val = Decrypt(sk, ValueOf(heap, objs[last.i])).plain

\* C17: no operation changes a value or field that existed before it (the
\* fields of the keys, and C1, C2, D, n of every live ciphertext), whether it
\* succeeds or fails, and what Add returns is made of new objects only
C17_Immutable ==
    last.op # "none" =>
        /\ last.post = last.pre
        /\ (last.op = "Add" /\ last.err = NoErr) => last.fresh

\* Add of a ciphertext to itself succeeded, and Add of two ciphertexts of
\* different domains failed
C17_Witness ==
    /\ last.op = "Add"
    /\ \/ last.i = last.j /\ last.err = NoErr /\ last.ct.c1 # heap[objs[last.i].c1]
       \/ last.err = "mismatched common denominators"
    /\ Len(objs) >= 2

\* ------------------------------------------------------------------------
\*  The two implementations side by side
\* ------------------------------------------------------------------------

\* one-byte ballots
CarryMsgs == { <<0>>, <<1>>, <<63>> }

InitCarry == Init

\* both KeyGen on the same precision, x and secret scalar
CarryKeyGenOp ==
    /\ sk = NilSk
    /\ \E precBits \in MinPrec .. MaxPrec, xString \in {Dec(61, 100), Dec(3, 10)},
          rnd \in RngOutputs :
          /\ sk' = KeyGen(precBits, xString, rnd).sk
          /\ pk' = KeyGen(precBits, xString, rnd).pk
          /\ legacy' = [legacy EXCEPT !.sk = LegacyKeyGen(precBits, xString, rnd).sk]
    /\ UNCHANGED <<tally, sum, count, ns, kinds, res, box, agg, exceptLegacy>>

\* the same ballot under the same randomizer is encrypted by both and added
\* to both tallies
CarryCastOp ==
    /\ pk # NilPk
    /\ count < MaxAdds + 1
    /\ \E m \in CarryMsgs, r \in Randomizers :
          /\ Fold("EncryptDeterministic", EncryptDeterministic(pk, m, r), PlainInt(m))
          /\ LET enc == LegacyEncryptDeterministic(legacy.sk.PK, m, r).ct IN
             legacy' = [legacy EXCEPT
                           !.tally = IF legacy.tally = NilLegacyCt THEN enc
                                     ELSE LegacyAdd(legacy.tally, enc, legacy.sk.PK.Prec).ct,
                           !.res = NoLegacy.res]
    /\ UNCHANGED <<sk, pk, box, agg, exceptLegacy>>

\* both tallies are decrypted
CarryDecryptOp ==
    /\ sk # NilSk
    /\ tally # NilCt
    /\ res.op # "Decrypt"
    /\ res' = [ByteResult(tally) EXCEPT !.digits = DecryptDigits(sk, tally).digits]
    /\ legacy' = [legacy EXCEPT !.res = LegacyDecrypt(legacy.sk, legacy.tally)]
    /\ UNCHANGED <<sk, pk, tally, sum, count, ns, kinds, box, agg, exceptLegacy>>

NextCarry ==
    \/ CarryKeyGenOp
    \/ CarryCastOp
    \/ CarryDecryptOp

SpecCarry == InitCarry /\ [][NextCarry]_vars

\* ------------------------------------------------------------------------
\*  Claims about the carry-propagating implementation
\* ------------------------------------------------------------------------

\* the digits of the native sum of the ballots, reduced mod 10^n
SumDigits(n) == FormatPadded(n, sum % (10 ^ n))

\* C25: the tally of the carry-propagating implementation decrypts to the sum
\* of the messages mod 10^n, after any number of additions
C25_CarryCorrect ==
    legacy.res.op = "Decrypt" =>
        (legacy.res.err = NoErr /\ legacy.res.digits = SumDigits(legacy.tally.n))

\* the public key is the exact image of the secret: HInt = a * XInt mod D
KeyExact == pk.HInt = (sk.A * pk.XInt) % pk.D

\* what the carry-propagating tally decrypted to, minus the native sum, as a
\* signed residue mod 10^n
LegacyError ==
    LET t == 10 ^ legacy.tally.n
        d == (DigitsToInt(legacy.res.digits) - sum) % t
    IN  IF 2 * d >= t THEN d - t ELSE d

Abs(v) == IF v < 0 THEN 0 - v ELSE v

\* C26: on the same secret, messages and randomizers the two implementations
\* are not equivalent: under a key that is the exact image of its secret the
\* common-domain tally decrypts to the exact sum, while the carry-propagating
\* tally is off by up to one unit per addition
C26_NotEquivalent ==
    (res.op = "Decrypt" /\ legacy.res.op = "Decrypt" /\ KeyExact) =>
        /\ res.err = NoErr
        /\ res.digits = SumDigits(tally.n)
        /\ Abs(LegacyError) <= count - 1

\* after two additions the carry-propagating tally is off by two, more than
\* one addition can cause, and the common-domain tally is the exact sum
C26_Witness ==
    /\ res.op = "Decrypt" /\ legacy.res.op = "Decrypt"
    /\ KeyExact
    /\ count = 3
    /\ Abs(LegacyError) = 2
    /\ res.digits = SumDigits(tally.n)
    /\ res.digits # legacy.res.digits

\* ------------------------------------------------------------------------
\*  Aggregation of operands a caller may hold
\* ------------------------------------------------------------------------

\* the zero value &Ciphertext{}: no c1, no c2, no d, n = 0
ZeroCt == [c1 |-> NilInt, c2 |-> NilInt, d |-> NilInt, n |-> 0]

\* what a caller can pass: the results of encryptions, a nil pointer (what a
\* failed encryption returned) and the zero value of the exported type
AnyInputs == BoxInputs \cup {NilCt, ZeroCt}

InitAny == Init

SubmitAny ==
    /\ agg = NoAgg
    /\ Len(box) < MaxBox
    /\ \E ct \in AnyInputs : box' = Append(box, ct)
    /\ UNCHANGED <<sk, pk, tally, sum, count, ns, kinds, res, agg, aux>>

NextAny ==
    \/ SubmitAny
    \/ AddOp
    \/ AddManyOp

SpecAny == InitAny /\ [][NextAny]_vars

\* the ciphertext is a non-nil pointer with c1, c2 and d set
Complete(ct) ==
    ct # NilCt /\ ct.c1 # NilInt /\ ct.c2 # NilInt /\ ct.d # NilInt

\* C29: for every non-empty input AddMany returns an error or a non-nil
\* ciphertext with non-nil C1, C2 and D; Add does so for every pair
C29_AddManyValidates ==
    /\ (agg.op = "AddMany" /\ Len(box) >= 1) =>
           (agg.out.err # NoErr \/ Complete(agg.out.ct))
    /\ agg.op = "Add" => (agg.out.err # NoErr \/ Complete(agg.out.ct))

====
